---- MODULE Spec2Model ----
(***************************************************************************)
(* MeditationAgent: the generation orchestrator (router/meditationGuide.js) *)
(* and the speech-synthesis cache with in-flight de-duplication            *)
(* (utils/tts.js).                                                         *)
(*                                                                         *)
(* JavaScript values are tagged records, so that `undefined`, numbers and  *)
(* strings can live in the same field and the code's truthiness tests      *)
(* (`a || b`, `x && ...`) are computed the way the code computes them.     *)
(***************************************************************************)
EXTENDS Integers, Sequences, FiniteSets, TLC

\* ---------------------------------------------------------------- values
Undefined == [t |-> "undefined"]
Null == [t |-> "null"]
N(n) == [t |-> "number", n |-> n]
S(s) == [t |-> "string", s |-> s]
Obj(fields) == [t |-> "object", o |-> fields]
NaN == [t |-> "NaN"]

\* JavaScript ToBoolean
Truthy(v) ==
  CASE v.t = "undefined" -> FALSE
    [] v.t = "null" -> FALSE
    [] v.t = "NaN" -> FALSE
    [] v.t = "number" -> v.n # 0
    [] v.t = "string" -> v.s # ""
    [] OTHER -> TRUE

\* a || b
Or(a, b) == IF Truthy(a) THEN a ELSE b

\* destructuring default: applies to undefined only
Default(v, d) == IF v.t = "undefined" THEN d ELSE v

\* ---------------------------------------------------------------- config.js
DEFAULT_DURATION == 10
SUPPORTED_LANGUAGES == {"zh", "en"}
MinAccepted == 1
MaxAccepted == 60
QuickThreshold == 3

INVALID_LANGUAGE == "PARAM_INVALID_LANGUAGE"
INVALID_DURATION == "PARAM_INVALID_DURATION"
INVALID_TOPIC == "PARAM_INVALID_TOPIC"
LLM_FAILED == "LLM_CALL_FAILED"
EMPTY_CONTENT == "LLM_CONTENT_EMPTY"
MEDITATION_GENERATION_ERROR == "MEDITATION_GENERATION_ERROR"

\* the values of config.ERROR_CODES
ErrorCodeValues ==
  { "LLM_CONFIG_NO_KEY", "LLM_RESPONSE_EMPTY", "LLM_HTTP_ERROR",
    INVALID_LANGUAGE, INVALID_DURATION, INVALID_TOPIC,
    LLM_FAILED, "TTS_SYNTHESIS_FAILED", EMPTY_CONTENT, MEDITATION_GENERATION_ERROR }

\* ---------------------------------------------------------------- catalog
\* prompts/meditation_types.json: the topic catalog read by meditation_prompt.js
Catalog ==
  { [id |-> "sleep", zh |-> "zhumian", en |-> "Sleep Meditation",
     keywords |-> {"insomnia"}, recommendedStyles |-> <<"healing", "gentle">>,
     defaultDuration |-> 20],
    [id |-> "basic-relaxation", zh |-> "jichufangsong", en |-> "Basic Relaxation",
     keywords |-> {"relax"}, recommendedStyles |-> <<"gentle">>,
     defaultDuration |-> 10] }

DefaultTopic == "jichufangsong"

LocalName(c, language) == IF language = "zh" THEN S(c.zh)
                          ELSE IF language = "en" THEN S(c.en) ELSE Undefined

\* _findTopicConfig: by id, localized name or keyword
FindTopicConfig(topic) ==
  { c \in Catalog : c.id = topic \/ c.zh = topic \/ c.en = topic \/ topic \in c.keywords }

\* getTopicDetails(topic, language) is null exactly when no entry matches
TopicResolves(topic) == FindTopicConfig(topic) # {}

\* getSupportedTopics(language): the localized names
GetSupportedTopics(language) == { LocalName(c, language) : c \in Catalog }

\* ---------------------------------------------------------------- bounds
\* texts the text-generation provider can put in a response field
Texts == {"om", "breathe"}

\* request fields a caller can send to handleMeditationGuide
EventTopics == {Undefined, S("insomnia"), S("xyz")}
EventDurations == {Undefined, N(0), N(1), N(2), N(3), N(60), N(61)}
EventLanguages == {Undefined, S(""), S("zh"), S("en"), S("fr")}

Events ==
  [topic : EventTopics, duration : EventDurations, language : EventLanguages,
   voice : BOOLEAN, skipAudio : BOOLEAN]

\* what the chat-completion endpoint can answer to one axios.post
ContentFields == {Undefined, S("")} \cup { S(x) : x \in Texts }
LlmResponses ==
  [transport : {"error"}, status : {Undefined, N(500)}]
    \cup [transport : {"ok"}, choices : ContentFields, result : ContentFields,
          content : ContentFields]

VARIABLES
  config,   \* environment read at process start (config.js, tts.js cfg)
  g,        \* the handleMeditationGuide invocation in progress
  pending,  \* tts.js `pending`: registry key -> task
  tasks,    \* the _innerSynthesize tasks started so far
  calls,    \* direct synthesizeSpeech calls made so far
  fx,       \* a pure helper applied to inputs: the inputs and what it returned
  caller    \* the wrapper awaiting handleMeditationGuide: batch or preview

vars == <<config, g, pending, tasks, calls, fx, caller>>

NoCaller == [kind |-> "none"]

FxIdle == [stage |-> "idle"]

\* ---------------------------------------------------------------- validateInputs
Valid == [valid |-> TRUE]
Invalid(code) == [valid |-> FALSE, error |-> [code |-> S(code)]]

validateInputs_OffByOne(topic, language, duration, strict) ==
  IF Truthy(language) /\ ~(language.t = "string" /\ language.s \in SUPPORTED_LANGUAGES)
    THEN Invalid(INVALID_LANGUAGE)
  ELSE IF Truthy(duration) /\ (duration.n <= MinAccepted \/ duration.n > MaxAccepted)
    THEN Invalid(INVALID_DURATION)
  ELSE IF strict /\ ~TopicResolves(topic.s)
          /\ topic \notin GetSupportedTopics(Or(language, S("zh")).s)
    THEN Invalid(INVALID_TOPIC)
  ELSE Valid

validateInputs(topic, language, duration, strict) ==
  IF Truthy(language) /\ ~(language.t = "string" /\ language.s \in SUPPORTED_LANGUAGES)
    THEN Invalid(INVALID_LANGUAGE)
  ELSE IF Truthy(duration) /\ (duration.n < MinAccepted \/ duration.n > MaxAccepted)
    THEN Invalid(INVALID_DURATION)
  ELSE IF strict /\ ~TopicResolves(topic.s)
          /\ topic \notin GetSupportedTopics(Or(language, S("zh")).s)
    THEN Invalid(INVALID_TOPIC)
  ELSE Valid

\* ---------------------------------------------------------------- callLLM
LlmFailure(code) == [success |-> FALSE, error |-> [code |-> code]]

\* the value callLLM resolves with, given the endpoint's answer to its request
callLLM_ContentFirst(apiKey, resp) ==
  IF ~apiKey THEN LlmFailure(S("NO_API_KEY"))
  ELSE IF resp.transport = "error" THEN LlmFailure(Or(resp.status, S("HTTP_ERROR")))
  ELSE LET content == Or(Or(resp.content, resp.result), resp.choices) IN
       IF ~Truthy(content) THEN LlmFailure(S("EMPTY_RESPONSE"))
       ELSE [success |-> TRUE, data |-> [text |-> content, content |-> content]]

callLLM(apiKey, resp) ==
  IF ~apiKey THEN LlmFailure(S("NO_API_KEY"))
  ELSE IF resp.transport = "error" THEN LlmFailure(Or(resp.status, S("HTTP_ERROR")))
  ELSE LET content == Or(Or(resp.choices, resp.result), resp.content) IN
       IF ~Truthy(content) THEN LlmFailure(S("EMPTY_RESPONSE"))
       ELSE [success |-> TRUE, data |-> [text |-> content, content |-> content]]

\* callLLM sends its one axios.post only past the API-key check
LlmRequestsSent_NoKeyCheck(apiKey) == 1

LlmRequestsSent(apiKey) == IF apiKey THEN 1 ELSE 0

\* ---------------------------------------------------------------- tts.js helpers
DefaultVoiceType == 1001
DefaultSampleRate == 16000
MaxTextBytes == 2000
SpeedMin == -2
SpeedMax == 2
VolumeMin == 0
VolumeMax == 10

\* unary plus (ToNumber); the model's strings are not numerals
ToNumber(v) ==
  CASE v.t = "number" -> v
    [] v.t = "null" -> N(0)
    [] v.t = "string" /\ v.s = "" -> N(0)
    [] OTHER -> NaN

\* a ?? b
Nullish(a, b) == IF a.t \in {"undefined", "null"} THEN b ELSE a

\* clamp = Math.max(min, Math.min(max, n)); NaN propagates
clamp(v, min, max) ==
  IF v.t = "NaN" THEN NaN
  ELSE N(IF v.n < min THEN min ELSE IF v.n > max THEN max ELSE v.n)

\* `${v}` in a template literal
Render(v) ==
  CASE v.t = "number" -> ToString(v.n)
    [] v.t = "NaN" -> "NaN"
    [] v.t = "string" -> v.s
    [] v.t = "undefined" -> "undefined"
    [] v.t = "null" -> "null"
    [] OTHER -> "[object Object]"

\* md5 hex digest, taken as collision-free
md5(s) == "md5<" \o s \o ">"

\* the character that stands for a three-byte (CJK) character in the model's
\* texts; every other character is ASCII
Cjk == "Z"

\* Buffer.byteLength(text, 'utf8')
byteLength(s) == Len(s) + 2 * Cardinality({i \in 1..Len(s) : SubSeq(s, i, i) = Cjk})

\* `Buffer.byteLength(text, 'utf8') > 2000`
TextTooLong_Inclusive(s) == byteLength(s) >= MaxTextBytes

TextTooLong(s) == byteLength(s) > MaxTextBytes

\* langMap[l]
langMap(l) ==
  IF l.t # "string" THEN Undefined
  ELSE CASE l.s = "zh" -> N(1) [] l.s = "en" -> N(2) [] l.s = "ja" -> N(3)
         [] OTHER -> Undefined

NoOpts == [voiceType |-> Undefined, speed |-> Undefined, volume |-> Undefined,
           sampleRate |-> Undefined, lang |-> Undefined]

\* synthesizeSpeech: fullOpts
FullOpts(opts) ==
  [voiceType |-> Or(ToNumber(opts.voiceType), N(DefaultVoiceType)),
   speed |-> clamp(Nullish(ToNumber(opts.speed), N(0)), SpeedMin, SpeedMax),
   volume |-> clamp(Nullish(ToNumber(opts.volume), N(5)), VolumeMin, VolumeMax),
   sampleRate |-> Or(ToNumber(opts.sampleRate), N(DefaultSampleRate)),
   lang |-> Or(opts.lang, S("zh"))]

\* synthesizeSpeech: the key of the pending registry
RegistryKey_NoSpeed(text, fullOpts) ==
  md5(Render(fullOpts.voiceType) \o "_"
      \o Render(fullOpts.volume) \o "_" \o Render(fullOpts.sampleRate) \o "_"
      \o Render(fullOpts.lang) \o "_" \o text)

RegistryKey(text, fullOpts) ==
  md5(Render(fullOpts.voiceType) \o "_" \o Render(fullOpts.speed) \o "_"
      \o Render(fullOpts.volume) \o "_" \o Render(fullOpts.sampleRate) \o "_"
      \o Render(fullOpts.lang) \o "_" \o text)

\* _innerSynthesize: primaryLanguage
PrimaryLanguage(opts, defaultLang) ==
  Nullish(Nullish(langMap(opts.lang), langMap(S(defaultLang))), N(1))

\* _innerSynthesize: the object key probed and written in the store
StoreKey(text, opts, defaultLang) ==
  "meditation/audio/"
    \o md5(Render(Or(ToNumber(opts.voiceType), N(DefaultVoiceType))) \o "_"
           \o Render(clamp(Nullish(ToNumber(opts.speed), N(0)), SpeedMin, SpeedMax)) \o "_"
           \o Render(clamp(Nullish(ToNumber(opts.volume), N(5)), VolumeMin, VolumeMax)) \o "_"
           \o Render(Or(ToNumber(opts.sampleRate), N(DefaultSampleRate))) \o "_"
           \o Render(PrimaryLanguage(opts, defaultLang)) \o "_" \o text)
    \o ".mp3"

\* buildUrl
buildUrl(k) == "https://cdn/" \o k

\* settled and unsettled promises
Unsettled == [state |-> "pending"]
Fulfilled(v) == [state |-> "fulfilled", value |-> v]
Rejected(e) == [state |-> "rejected", error |-> e]

\* synthesizeSpeech up to its return: what the call does with the registry.
\* `text` is the first argument as a JavaScript value.
synthesizeSpeech_NoDedup(text, opts, reg) ==
  IF ~Truthy(text) \/ text.t # "string" THEN [kind |-> "throw", error |-> "text empty"]
  ELSE IF TextTooLong(text.s) THEN [kind |-> "throw", error |-> "text too long"]
  ELSE LET fullOpts == FullOpts(opts)
           cacheKey == RegistryKey(text.s, fullOpts)
       IN [kind |-> "start", key |-> cacheKey, text |-> text.s, fullOpts |-> fullOpts]

synthesizeSpeech(text, opts, reg) ==
  IF ~Truthy(text) \/ text.t # "string" THEN [kind |-> "throw", error |-> "text empty"]
  ELSE IF TextTooLong(text.s) THEN [kind |-> "throw", error |-> "text too long"]
  ELSE LET fullOpts == FullOpts(opts)
           cacheKey == RegistryKey(text.s, fullOpts)
       IN IF cacheKey \in DOMAIN reg
            THEN [kind |-> "reuse", key |-> cacheKey, task |-> reg[cacheKey]]
            ELSE [kind |-> "start", key |-> cacheKey, text |-> text.s, fullOpts |-> fullOpts]

\* property read on an object: undefined when the object has no such field
Get(r, f) == IF f \in DOMAIN r THEN r[f] ELSE Undefined

\* ---------------------------------------------------------------- registry effects
\* _innerSynthesize up to its first await: the store probe when the store is
\* configured, the first provider attempt otherwise
NewTask(res) ==
  [key |-> res.key, text |-> res.text, opts |-> res.fullOpts,
   storeKey |-> StoreKey(res.text, res.fullOpts, config.defaultLang),
   pc |-> IF config.cos THEN "head" ELSE "tts",
   attempt |-> 0, cosAttempt |-> 0,
   headCalls |-> IF config.cos THEN 1 ELSE 0,
   ttsCalls |-> IF config.cos THEN 0 ELSE 1,
   inflight |-> IF config.cos THEN 0 ELSE 1,
   putCalls |-> 0,
   probe |-> IF config.cos THEN "wait" ELSE "none",
   lastError |-> Undefined,
   promise |-> Unsettled]

\* pending.set(cacheKey, task) of a call that started a task
TasksAfter(res) == IF res.kind = "start" THEN Append(tasks, NewTask(res)) ELSE tasks
PendingAfter(res) ==
  IF res.kind = "start" THEN (res.key :> (Len(tasks) + 1)) @@ pending ELSE pending

\* the promise synthesizeSpeech hands to its caller
HandleOf(res) ==
  CASE res.kind = "throw" -> [kind |-> "throw", error |-> res.error]
    [] res.kind = "reuse" -> [kind |-> "task", id |-> res.task]
    [] OTHER -> [kind |-> "task", id |-> Len(tasks) + 1]

HandleState(h) == IF h.kind = "throw" THEN Rejected(h.error) ELSE tasks[h.id].promise

\* ---------------------------------------------------------------- calculateMaxTokens
\* config.js; the two non-integer factors as fractions
WORDS_PER_MINUTE == 175
TOKENS_PER_WORD == [num |-> 15, den |-> 10]
TOKEN_BUFFER == [num |-> 12, den |-> 10]

\* `isQuickMode ? 0.8 : 1.0`
tokenMultiplier_Standard(isQuickMode) == [num |-> 1, den |-> 1]

tokenMultiplier(isQuickMode) ==
  IF isQuickMode THEN [num |-> 8, den |-> 10] ELSE [num |-> 1, den |-> 1]

\* Math.floor(duration * WORDS_PER_MINUTE * TOKENS_PER_WORD * TOKEN_BUFFER *
\* tokenMultiplier). The product is taken exactly; for the integer durations
\* 1..60 the double-precision product has the same floor.
calculateMaxTokens(duration, isQuickMode) ==
  LET m == tokenMultiplier(isQuickMode)
  IN (duration * WORDS_PER_MINUTE * TOKENS_PER_WORD.num * TOKEN_BUFFER.num * m.num)
       \div (TOKENS_PER_WORD.den * TOKEN_BUFFER.den * m.den)

\* ---------------------------------------------------------------- buildPrompt
DefaultStyle == "gentle"
DefaultPromptDuration == 10

\* the style and the duration buildPrompt writes into the prompt: the
\* destructuring defaults of its parameter apply to undefined fields, then the
\* catalog entry of the topic fills in what is still falsy
buildPrompt(params) ==
  LET topic == Default(params.topic, S(DefaultTopic))
      style == Default(params.style, S(DefaultStyle))
      duration == Default(params.duration, N(DefaultPromptDuration))
      found == FindTopicConfig(topic.s)
  IN IF found # {}
       THEN LET topicConfig == CHOOSE c \in found : TRUE
            IN [style |-> Or(style, S(topicConfig.recommendedStyles[1])),
                duration |-> Or(duration, N(topicConfig.defaultDuration))]
       ELSE [style |-> style, duration |-> duration]

\* the argument handleMeditationGuide passes to buildPrompt: the event's topic
\* (defaulted) and style, and `rawDuration || config.DEFAULT_DURATION`
GuidePromptParams(e) ==
  [topic |-> Default(e.topic, S(DefaultTopic)), style |-> Get(e, "style"),
   duration |-> Or(e.duration, N(DEFAULT_DURATION))]

\* the style the result reports:
\* `style || (topicDetails ? topicDetails.recommendedStyles?.[0] : 'gentle')`
MetadataStyle(style, topic) ==
  LET found == FindTopicConfig(topic.s)
  IN Or(style, IF found # {}
                 THEN S((CHOOSE c \in found : TRUE).recommendedStyles[1])
                 ELSE S(DefaultStyle))

\* ---------------------------------------------------------------- the text-generation request
\* the two system messages, named for their literals in the call
QuickSystemPrompt == "system: quick guide, compact and direct"
StandardSystemPrompt == "system: gentle, calm guide"

\* `isQuickMode ? <quick literal> : <standard literal>`
systemPrompt(isQuickMode) ==
  IF isQuickMode THEN QuickSystemPrompt ELSE StandardSystemPrompt

\* `isQuickMode ? 0.6 : (options.temperature || 0.7)`; temperatures are
\* carried in tenths, N(6) is 0.6
temperature(isQuickMode, optTemperature) ==
  IF isQuickMode THEN N(6) ELSE Or(optTemperature, N(7))

\* ---------------------------------------------------------------- handleMeditationGuide
GIdle ==
  [pc |-> "idle", phases |-> <<>>, event |-> Undefined, topic |-> Undefined, language |-> Undefined,
   voice |-> FALSE, skipAudio |-> FALSE, duration |-> Undefined, isQuickMode |-> FALSE,
   validation |-> Undefined, systemPrompt |-> Undefined, temperature |-> Undefined,
   maxTokens |-> Undefined, llmCalls |-> 0, llmRequests |-> 0, synthCalls |-> 0,
   usageCalls |-> 0, llmRaw |-> Undefined, llmResp |-> Undefined, meditationText |-> Undefined,
   synthArg |-> Undefined, handle |-> Undefined, audio |-> Null, thrown |-> Undefined,
   promptStyle |-> Undefined,
   result |-> Undefined]

\* `if (!validation.valid) return ...`
ValidationReturns_Never(validation) == FALSE

ValidationReturns(validation) == ~validation.valid

\* `if (voice && language === 'zh')`
VoiceGate(voice, language, skipAudio) == voice /\ language = S("zh")

\* the single argument handed to synthesizeSpeech
SynthArgument_Empty(meditationText) == Obj([text |-> S("")])

SynthArgument(meditationText) == Obj([text |-> meditationText])

\* the voice phase after the synthesizeSpeech promise settled (try/catch included)
VoiceOutcome_AudioAnyway(h) ==
  IF h.state = "rejected" THEN [thrown |-> FALSE, audio |-> [url |-> Undefined]]
  ELSE [thrown |-> FALSE, audio |-> [url |-> Or(Get(h.value, "audioUrl"), Get(h.value, "url"))]]

VoiceOutcome_NoCatch(h) ==
  IF h.state = "rejected" THEN [thrown |-> TRUE, audio |-> Null]
  ELSE IF Truthy(Get(h.value, "success")) \/ Truthy(Get(h.value, "audioUrl"))
    THEN [thrown |-> FALSE,
          audio |-> [url |-> Or(Get(h.value, "audioUrl"), Get(h.value, "url"))]]
  ELSE [thrown |-> FALSE, audio |-> Null]

VoiceOutcome(h) ==
  IF h.state = "rejected" THEN [thrown |-> FALSE, audio |-> Null]
  ELSE IF Truthy(Get(h.value, "success")) \/ Truthy(Get(h.value, "audioUrl"))
    THEN [thrown |-> FALSE,
          audio |-> [url |-> Or(Get(h.value, "audioUrl"), Get(h.value, "url"))]]
  ELSE [thrown |-> FALSE, audio |-> Null]

\* the exceptions the handler's own statements raise
DestructureError == [message |-> S("Cannot destructure property 'topic' of 'event'")]
OptionsError == [message |-> S("Cannot read properties of null")]
CountWordsError == [message |-> S("text.replace is not a function")]
VoiceError == [message |-> S("tts")]

\* an async function whose exception nobody catches rejects
CatchResult_Rethrow(error) == [rejected |-> error]

\* the outermost catch
CatchResult(error) ==
  [success |-> FALSE,
   error |-> [code |-> Or(Get(error, "code"), S(MEDITATION_GENERATION_ERROR)),
              message |-> Or(Get(error, "message"), S("generation failed"))]]

\* an exception raised in a phase of the try block ends the handler in the catch
Thrown(rec, phase, error) ==
  [rec EXCEPT !.pc = "done", !.thrown = [phase |-> phase, error |-> error],
              !.result = CatchResult(error)]

\* countWords calls text.replace or text.split, which only a string has
CountWordsThrows(text) == text.t # "string"

\* steps 6-8: result assembly and the usage hook
Assembled(rec, audio) ==
  IF CountWordsThrows(rec.meditationText) THEN Thrown(rec, "assemble", CountWordsError)
  ELSE
  [rec EXCEPT !.pc = "done", !.audio = audio, !.phases = Append(@, "assemble"),
     !.usageCalls = IF config.analytics THEN 1 ELSE 0,
     !.result = [success |-> TRUE,
                 data |-> [text |-> rec.meditationText.s, audio |-> audio,
                           metadata |->
                             [style |-> MetadataStyle(Get(rec.event, "style"), rec.topic),
                              mode |-> IF rec.isQuickMode THEN "quick" ELSE "standard"]]]]

\* handleMeditationGuide(e) up to its first await: parsing, validation,
\* prompt, callLLM invoked
Enter(e) ==
  IF "t" \in DOMAIN e
    THEN g' = Thrown([GIdle EXCEPT !.event = e], "parse", DestructureError)
  ELSE
  LET topic == Default(e.topic, S(DefaultTopic))
      language == Default(e.language, S("zh"))
      duration == Or(e.duration, N(DEFAULT_DURATION))
      validation == validateInputs(topic, language, duration, config.strict)
      parsed == [GIdle EXCEPT !.event = e, !.topic = topic, !.language = language,
                   !.voice = e.voice, !.skipAudio = e.skipAudio,
                   !.duration = duration,
                   !.isQuickMode = (duration.n < QuickThreshold),
                   !.validation = validation, !.phases = <<"validate">>]
  IN IF ValidationReturns(validation)
       THEN g' = [parsed EXCEPT !.pc = "done",
                    !.result = [success |-> FALSE, error |-> validation.error]]
     ELSE IF Get(e, "options") = Null
       THEN g' = Thrown([parsed EXCEPT !.phases = <<"validate", "prompt">>],
                        IF duration.n < QuickThreshold THEN "text" ELSE "prompt",
                        OptionsError)
       ELSE g' = [parsed EXCEPT !.pc = "llm", !.llmCalls = 1,
                    !.phases = <<"validate", "prompt", "text">>,
                    !.promptStyle = IF duration.n < QuickThreshold THEN Undefined
                                    ELSE buildPrompt(GuidePromptParams(e)).style,
                    !.systemPrompt = S(systemPrompt(duration.n < QuickThreshold)),
                    !.temperature = temperature(duration.n < QuickThreshold,
                                                Get(e, "temperature")),
                    !.maxTokens = N(calculateMaxTokens(duration.n, duration.n < QuickThreshold)),
                    !.llmRequests = LlmRequestsSent(config.apiKey)]

\* a request handed to handleMeditationGuide directly
Receive(e) ==
  /\ g.pc = "idle"
  /\ Enter(e)
  /\ UNCHANGED <<caller, fx, config, pending, tasks, calls>>

\* `if (!llmResp?.success)`
ClientFailed_Never(llmResp) == FALSE

ClientFailed(llmResp) == ~("success" \in DOMAIN llmResp /\ llmResp.success)

\* `llmResp?.error || { code: config.ERROR_CODES.LLM_FAILED, ... }`
ClientError(llmResp) ==
  IF "error" \in DOMAIN llmResp THEN llmResp.error ELSE [code |-> S(LLM_FAILED)]

\* llmResp.data?.f
DataField(llmResp, f) == IF "data" \in DOMAIN llmResp THEN Get(llmResp.data, f) ELSE Undefined

\* data?.text || data?.choices?.[0]?.message?.content || data?.content || ''
ExtractText(llmResp) ==
  Or(Or(Or(DataField(llmResp, "text"), DataField(llmResp, "choices")),
        DataField(llmResp, "content")), S(""))

\* the handler from the value `await callLLM(...)` produced on to its next
\* await or to its return
AfterLlm(llmResp, raw) ==
  LET got == [g EXCEPT !.llmResp = llmResp, !.llmRaw = raw]
  IN IF ClientFailed(llmResp)
       THEN /\ g' = [got EXCEPT !.pc = "done",
                       !.result = [success |-> FALSE, error |-> ClientError(llmResp)]]
            /\ UNCHANGED <<pending, tasks>>
       ELSE LET meditationText == ExtractText(llmResp)
                withText == [got EXCEPT !.meditationText = meditationText]
            IN IF ~Truthy(meditationText)
                 THEN /\ g' = [got EXCEPT !.pc = "done",
                                 !.result = [success |-> FALSE,
                                             error |-> [code |-> S(EMPTY_CONTENT)]]]
                      /\ UNCHANGED <<pending, tasks>>
               ELSE IF VoiceGate(g.voice, g.language, g.skipAudio)
                 THEN LET arg == SynthArgument(meditationText)
                          res == synthesizeSpeech(arg, NoOpts, pending)
                      IN /\ g' = [withText EXCEPT !.pc = "tts", !.synthCalls = 1,
                                    !.phases = Append(@, "voice"),
                                    !.synthArg = arg, !.handle = HandleOf(res)]
                         /\ tasks' = TasksAfter(res)
                         /\ pending' = PendingAfter(res)
               ELSE /\ g' = Assembled(withText, Null)
                    /\ UNCHANGED <<pending, tasks>>

\* callLLM settles
LlmSettles(resp) ==
  /\ g.pc = "llm"
  /\ AfterLlm(callLLM(config.apiKey, resp), IF g.llmRequests = 0 THEN Undefined ELSE resp)
  /\ UNCHANGED <<caller, fx, config, calls>>

\* the synthesizeSpeech promise settles; the handler runs on to its return
VoiceSettles ==
  /\ g.pc = "tts"
  /\ HandleState(g.handle).state # "pending"
  /\ LET out == VoiceOutcome(HandleState(g.handle))
     IN IF out.thrown
          THEN g' = [g EXCEPT !.pc = "done", !.result = CatchResult(VoiceError)]
          ELSE g' = Assembled(g, out.audio)
  /\ UNCHANGED <<caller, fx, config, pending, tasks, calls>>

\* the result is handed back; the process is free for the next request
Return ==
  /\ g.pc = "done"
  /\ g' = GIdle
  /\ UNCHANGED <<caller, fx, config, pending, tasks, calls>>

Init ==
  /\ config \in [strict : BOOLEAN, analytics : BOOLEAN, apiKey : BOOLEAN,
                 cos : {TRUE}, defaultLang : {"zh"}]
  /\ g = GIdle
  /\ pending = <<>>
  /\ tasks = <<>>
  /\ calls = <<>>
  /\ fx = FxIdle
  /\ caller = NoCaller

Next ==
  \/ \E e \in Events : Receive(e)
  \/ \E resp \in LlmResponses : LlmSettles(resp)
  \/ VoiceSettles
  \/ Return

Spec == Init /\ [][Next]_vars

\* ---------------------------------------------------------------- the handler over every duration
\* requests that set only the duration: absent, and every integer from 0 to
\* one past the accepted maximum
BudgetEvents ==
  [topic : {Undefined}, duration : {Undefined} \cup {N(d) : d \in 0..(MaxAccepted + 1)},
   language : {Undefined}, voice : {FALSE}, skipAudio : {FALSE},
   temperature : {Undefined, N(3), N(6), N(9)}]

NextBudget ==
  \/ \E e \in BudgetEvents : Receive(e)
  \/ LlmSettles([transport |-> "error", status |-> Undefined])
  \/ Return

SpecBudget == Init /\ [][NextBudget]_vars

\* ---------------------------------------------------------------- the handler with any client
\* results a text-generation client can hand to the handler: nothing, a
\* failure with or without an error object, a success with or without data
ClientErrors == {[code |-> S("NO_API_KEY")], [code |-> N(500)]}
ClientData ==
  [text : {Undefined, S(""), S("om")}, choices : {Undefined, S("breathe")},
   content : {Undefined, S(""), S("om")}]
ClientResults ==
  {Undefined, [success |-> FALSE], [success |-> TRUE]}
    \cup [success : {FALSE}, error : ClientErrors]
    \cup [success : {TRUE}, data : ClientData]

\* `await callLLM(...)` yields r
LlmReturns(r) ==
  /\ g.pc = "llm"
  /\ AfterLlm(r, Undefined)
  /\ UNCHANGED <<caller, fx, config, calls>>

NextClient ==
  \/ \E e \in Events : Receive(e)
  \/ \E r \in ClientResults : LlmReturns(r)
  \/ VoiceSettles
  \/ Return

SpecClient == Init /\ [][NextClient]_vars

\* ---------------------------------------------------------------- the handler's exceptions
\* requests that make a statement of the handler throw - no event at all,
\* options null - next to requests that do not
CatchEvents ==
  {Undefined, Null}
    \cup [topic : {S("insomnia")}, duration : {Undefined, N(2)}, language : {S("zh"), S("en")},
          voice : BOOLEAN, skipAudio : {FALSE}]
    \cup [topic : {S("insomnia")}, duration : {Undefined, N(2)}, language : {S("zh"), S("en")},
          voice : BOOLEAN, skipAudio : {FALSE}, options : {Null}]

\* client results whose text is not a string, next to those whose text is
CatchClientResults ==
  ClientResults
    \cup [success : {TRUE},
          data : [text : {N(42), Obj([parts |-> 2])}, choices : {Undefined},
                  content : {Undefined}]]

NextCatch ==
  \/ \E e \in CatchEvents : Receive(e)
  \/ \E r \in CatchClientResults : LlmReturns(r)
  \/ VoiceSettles
  \/ Return

SpecCatch == Init /\ [][NextCatch]_vars

\* ---------------------------------------------------------------- the style of a request
\* text-only requests with and without a style, for topics in and out of the
\* catalog
StyleEvents ==
  [topic : {Undefined, S("sleep"), S("insomnia"), S("xyz")},
   style : {Undefined, S(""), S("healing"), S("mindful")},
   duration : {Undefined, N(2), N(20)}, language : {Undefined, S("en")},
   voice : {FALSE}, skipAudio : {FALSE}]

NextStyle ==
  \/ \E e \in StyleEvents : Receive(e)
  \/ \E resp \in LlmResponses : LlmSettles(resp)
  \/ Return

SpecStyle == Init /\ [][NextStyle]_vars

\* ---------------------------------------------------------------- handleBatchGeneration
\* objects with some fields set are functions on those fields
EmptyObject == [f \in {} |-> Undefined]

\* { ...a, ...b }: b's fields override a's
Spread(a, b) == b @@ a

\* the fields handleMeditationGuide reads from the object it is handed
EventOf(o) ==
  [topic |-> Get(o, "topic"), duration |-> Get(o, "duration"),
   language |-> Get(o, "language"),
   voice |-> IF "voice" \in DOMAIN o THEN o.voice ELSE FALSE,
   skipAudio |-> IF "skipAudio" \in DOMAIN o THEN o.skipAudio ELSE FALSE]

\* `typeof topicConfig === 'string' ? { topic: topicConfig, ...baseOptions }
\*                                   : { ...baseOptions, ...topicConfig }`
BatchOptions(topicConfig, baseOptions) ==
  IF topicConfig.t = "string"
    THEN Spread([topic |-> topicConfig], baseOptions)
    ELSE Spread(baseOptions, topicConfig.o)

\* the loop has no exit but the end of the list
BatchContinues_StopOnFailure(result) == result.success

BatchContinues(result) == TRUE

\* results.push({ topic, success, data: success ? data : null, error })
BatchItem(options, result) ==
  [topic |-> Get(options, "topic"), success |-> result.success,
   data |-> IF result.success THEN result.data ELSE Null,
   error |-> Get(result, "error")]

Count(results, wanted) ==
  Cardinality({i \in 1..Len(results) : results[i].success = wanted})

\* the value handleBatchGeneration returns after the loop
BatchResponse(topics, results) ==
  [success |-> TRUE,
   data |-> [total |-> Len(topics), successful |-> Count(results, TRUE),
             failed |-> Count(results, FALSE), results |-> results]]

\* lists and base options a batch request can carry
MaxTopics == 2
TopicConfigs ==
  {S("insomnia"), S("xyz"), Obj([language |-> S("fr")]), Obj([topic |-> S("insomnia")])}
BaseOptions == {EmptyObject, [duration |-> N(2)], [duration |-> N(61)], [topic |-> S("xyz")]}
RECURSIVE ListsUpTo(_)
ListsUpTo(n) ==
  IF n = 0 THEN {<<>>}
  ELSE LET shorter == ListsUpTo(n - 1)
       IN shorter \cup {Append(l, c) : l \in {x \in shorter : Len(x) = n - 1},
                                       c \in TopicConfigs}

\* handleBatchGeneration entered: the list is checked, the loop begins
BatchStarts(topics, baseOptions) ==
  /\ caller = NoCaller /\ g.pc = "idle"
  /\ IF Len(topics) = 0
       THEN caller' = [kind |-> "batch", pc |-> "done", topics |-> topics,
                       baseOptions |-> baseOptions, invoked |-> <<>>, returned |-> <<>>,
                       results |-> <<>>,
                       response |-> [success |-> FALSE,
                                     error |-> [code |-> S("INVALID_TOPICS")]]]
       ELSE caller' = [kind |-> "batch", pc |-> "loop", topics |-> topics,
                       baseOptions |-> baseOptions, invoked |-> <<>>, returned |-> <<>>,
                       results |-> <<>>, response |-> Undefined]
  /\ UNCHANGED <<fx, config, g, pending, tasks, calls>>

\* one iteration reaches `await handleMeditationGuide(options)`
BatchItemStarts ==
  /\ caller.kind = "batch" /\ caller.pc = "loop" /\ g.pc = "idle"
  /\ LET options == BatchOptions(caller.topics[Len(caller.results) + 1],
                                 caller.baseOptions)
     IN /\ Enter(EventOf(options))
        /\ caller' = [caller EXCEPT !.pc = "item",
                                    !.invoked = Append(@, options)]
  /\ UNCHANGED <<fx, config, pending, tasks, calls>>

\* the awaited orchestration returns; the item is pushed and the loop goes on
\* or the batch returns
BatchItemReturns ==
  /\ caller.kind = "batch" /\ caller.pc = "item" /\ g.pc = "done"
  /\ LET options == caller.invoked[Len(caller.invoked)]
         results == Append(caller.results, BatchItem(options, g.result))
         more == Len(results) < Len(caller.topics) /\ BatchContinues(g.result)
     IN caller' = [caller EXCEPT !.pc = IF more THEN "loop" ELSE "done",
                                 !.returned = Append(@, g.result),
                                 !.results = results,
                                 !.response = IF more THEN Undefined
                                              ELSE BatchResponse(caller.topics, results)]
  /\ g' = GIdle
  /\ UNCHANGED <<fx, config, pending, tasks, calls>>

\* the batch response is handed back
BatchReturns ==
  /\ caller.kind = "batch" /\ caller.pc = "done"
  /\ caller' = NoCaller
  /\ UNCHANGED <<fx, config, g, pending, tasks, calls>>

NextBatch ==
  \/ \E topics \in ListsUpTo(MaxTopics) : \E baseOptions \in BaseOptions :
       BatchStarts(topics, baseOptions)
  \/ BatchItemStarts
  \/ \E resp \in {[transport |-> "error", status |-> N(500)],
                   [transport |-> "ok", choices |-> S("om"), result |-> Undefined,
                    content |-> Undefined]} : LlmSettles(resp)
  \/ BatchItemReturns
  \/ BatchReturns

SpecBatch == Init /\ [][NextBatch]_vars

\* ---------------------------------------------------------------- direct synthesizeSpeech callers
MaxCalls == 3

CallLangs == {Undefined, S("zh"), S("fr")}
CallInputs ==
  [text : {S("om")}, opts : { [NoOpts EXCEPT !.lang = l] : l \in CallLangs }]
    \cup [text : {S("")}, opts : {NoOpts}]

\* pending.delete(cacheKey)
PendingDelete_Keep(reg, k) == reg

PendingDelete_Clear(reg, k) == <<>>

PendingDelete(reg, k) == [x \in (DOMAIN reg) \ {k} |-> reg[x]]

\* one synthesizeSpeech(text, opts) call by some module of the process, of at
\* most `max` calls
CallWithin(i, max) ==
  /\ Len(calls) < max
  /\ LET res == synthesizeSpeech(i.text, i.opts, pending)
     IN /\ calls' = Append(calls, [text |-> i.text, opts |-> i.opts, kind |-> res.kind,
                                   handle |-> HandleOf(res)])
        /\ tasks' = TasksAfter(res)
        /\ pending' = PendingAfter(res)
  /\ UNCHANGED <<caller, fx, config, g>>

\* timeout(ms) rejects with this error
TtsTimeoutMs == 15000
TimeoutError == [message |-> "Timeout after " \o ToString(TtsTimeoutMs) \o "ms"]

\* the error the n-th TextToVoice call of a task rejects with
ProviderError(n) == [message |-> "TextToVoice failed #" \o ToString(n)]

\* Buffer.from(Audio, 'base64') on a response that carries no Audio string
DecodeError == [message |-> "The first argument must be of type string"]

\* what the catch of attempt n (1 or 2) receives
AttemptError(ans, n) ==
  CASE ans = "timeout" -> TimeoutError
    [] ans = "noaudio" -> DecodeError
    [] OTHER -> ProviderError(n)

\* the error a putObject call rejects with
StoreError == [message |-> "putObject failed"]

\* `lastError = e` in a catch
LastErrorAfter_First(prev, e) == IF prev = Undefined THEN e ELSE prev

LastErrorAfter(prev, e) == e

\* throw new Error(`[TTS] ...: ${lastError.message}`)
SynthesisError(lastError) == [message |-> "[TTS] hecheng shibai: " \o lastError.message]

\* the catch around headObject: which probe answers let the task go on
ProbeFallsThrough_NotFoundOnly(ans) == ans = "notfound"

ProbeFallsThrough(ans) == ans # "found"

\* the end of the upload loop when neither putObject succeeded
UploadsExhausted_Throw(lastError) == Rejected(SynthesisError(lastError))

UploadsExhausted(lastError) == Fulfilled([base64 |-> S("audio")])

\* the task returns or throws: its promise settles, its locals are gone and
\* its .finally callback runs
Settle(t, rec, p) ==
  /\ tasks' = [tasks EXCEPT ![t] = [rec EXCEPT !.promise = p, !.pc = "settled",
                                                !.lastError = Undefined]]
  /\ pending' = PendingDelete(pending, tasks[t].key)

\* cos.headObject answers
HeadAnswers(t, ans) ==
  /\ tasks[t].pc = "head"
  /\ LET probed == [tasks[t] EXCEPT !.probe = ans]
     IN IF ans = "found"
          THEN Settle(t, probed, Fulfilled([url |-> S(buildUrl(tasks[t].storeKey))]))
        ELSE IF ProbeFallsThrough(ans)
          THEN /\ tasks' = [tasks EXCEPT ![t] = [probed EXCEPT !.pc = "tts", !.attempt = 0,
                                                                !.ttsCalls = @ + 1,
                                                                !.inflight = @ + 1]]
               /\ UNCHANGED pending
        ELSE Settle(t, probed, Rejected([message |-> "headObject failed"]))
  /\ UNCHANGED <<caller, fx, config, g, calls>>

\* the provider calls of a task still outstanding once the race of the current
\* attempt has settled: the race is won by the call's own answer or by the
\* timer, and the timer cancels nothing
InFlightAfter(inflight, ans) == IF ans = "timeout" THEN inflight ELSE inflight - 1

\* Promise.race([ttsPromise, timeout(15000)]) settles and the attempt's try
\* block runs up to its next await
TtsAnswers(t, ans) ==
  /\ tasks[t].pc = "tts"
  /\ LET raced == [tasks[t] EXCEPT !.inflight = InFlightAfter(@, ans)]
     IN IF ans = "ok"
          THEN IF config.cos
                 THEN /\ tasks' = [tasks EXCEPT ![t] = [raced EXCEPT !.pc = "put",
                                                                     !.cosAttempt = 0,
                                                                     !.putCalls = @ + 1]]
                      /\ UNCHANGED pending
                 ELSE Settle(t, raced, Fulfilled([base64 |-> S("audio")]))
          ELSE LET lastError == LastErrorAfter(tasks[t].lastError,
                                               AttemptError(ans, tasks[t].attempt + 1))
               IN IF tasks[t].attempt = 0
                    THEN /\ tasks' = [tasks EXCEPT ![t] = [raced EXCEPT !.attempt = 1,
                                                                        !.ttsCalls = @ + 1,
                                                                        !.inflight = @ + 1,
                                                                        !.lastError = lastError]]
                         /\ UNCHANGED pending
                    ELSE Settle(t, raced, Rejected(SynthesisError(lastError)))
  /\ UNCHANGED <<caller, fx, config, g, calls>>

\* a provider call that lost its race answers; nobody reads the answer
LateTtsAnswer(t) ==
  /\ tasks[t].inflight > (IF tasks[t].pc = "tts" THEN 1 ELSE 0)
  /\ tasks' = [tasks EXCEPT ![t].inflight = @ - 1]
  /\ UNCHANGED <<caller, fx, config, g, calls, pending>>

\* cos.putObject answers
PutAnswers(t, ans) ==
  /\ tasks[t].pc = "put"
  /\ IF ans = "ok"
       THEN Settle(t, tasks[t], Fulfilled([url |-> S(buildUrl(tasks[t].storeKey)),
                                           base64 |-> S("audio")]))
       ELSE LET lastError == LastErrorAfter(tasks[t].lastError, StoreError)
            IN IF tasks[t].cosAttempt = 0
                 THEN /\ tasks' = [tasks EXCEPT ![t].cosAttempt = 1, ![t].putCalls = @ + 1,
                                     ![t].lastError = lastError]
                      /\ UNCHANGED pending
                 ELSE Settle(t, tasks[t], UploadsExhausted(lastError))
  /\ UNCHANGED <<caller, fx, config, g, calls>>

InitTts ==
  /\ config \in [strict : {FALSE}, analytics : {FALSE}, apiKey : {TRUE},
                 cos : BOOLEAN, defaultLang : {"zh"}]
  /\ g = GIdle
  /\ pending = <<>>
  /\ tasks = <<>>
  /\ calls = <<>>
  /\ fx = FxIdle
  /\ caller = NoCaller

\* what the store and the provider can answer
HeadAnswerKinds == {"found", "notfound", "error"}
TtsAnswerKinds == {"ok", "error", "timeout", "noaudio"}
PutAnswerKinds == {"ok", "error"}

\* concurrent callers: up to MaxCalls calls, one kind of failure per service
Call(i) == CallWithin(i, MaxCalls)

NextTts ==
  \/ \E i \in CallInputs : Call(i)
  \/ \E t \in 1..Len(tasks) : \E ans \in {"found", "notfound"} : HeadAnswers(t, ans)
  \/ \E t \in 1..Len(tasks) : \E ans \in {"ok", "error"} : TtsAnswers(t, ans)
  \/ \E t \in 1..Len(tasks) : \E ans \in PutAnswerKinds : PutAnswers(t, ans)

SpecTts == InitTts /\ [][NextTts]_vars

\* ---------------------------------------------------------------- one synthesis task in detail
\* up to MaxTaskCalls calls, every answer of the store and of the provider
MaxTaskCalls == 1

\* c repeated n times
RECURSIVE Rep(_, _)
Rep(c, n) ==
  IF n = 0 THEN ""
  ELSE IF n % 2 = 0 THEN LET h == Rep(c, n \div 2) IN h \o h
  ELSE c \o Rep(c, n - 1)

\* texts at the length limit: ASCII only, and three-byte characters padded
\* with ASCII to the same byte counts
LimitTexts ==
  {"", Rep("a", MaxTextBytes), Rep("a", MaxTextBytes + 1),
   Rep(Cjk, MaxTextBytes \div 3) \o Rep("a", MaxTextBytes % 3),
   Rep(Cjk, MaxTextBytes \div 3) \o Rep("a", (MaxTextBytes % 3) + 1),
   Rep(Cjk, (MaxTextBytes \div 3) + 1)}

TaskInputs ==
  [text : {S("om")}, opts : {NoOpts, [NoOpts EXCEPT !.lang = S("fr")]}]
    \cup [text : {S(x) : x \in LimitTexts}, opts : {NoOpts}]

TaskCall(i) == CallWithin(i, MaxTaskCalls)

NextTask ==
  \/ \E i \in TaskInputs : TaskCall(i)
  \/ \E t \in 1..Len(tasks) : \E ans \in HeadAnswerKinds : HeadAnswers(t, ans)
  \/ \E t \in 1..Len(tasks) : \E ans \in TtsAnswerKinds : TtsAnswers(t, ans)
  \/ \E t \in 1..Len(tasks) : \E ans \in PutAnswerKinds : PutAnswers(t, ans)
  \/ \E t \in 1..Len(tasks) : LateTtsAnswer(t)

SpecTask == InitTts /\ [][NextTask]_vars

\* the same task under the one scheduling guarantee the code gives: the race
\* of every provider attempt against timeout(15000) settles. Nothing bounds
\* the `await cos.headObject` and the `await cos.putObject`, so the store's
\* answers get no fairness
TtsAttemptSettles(t) ==
  \E ans \in TtsAnswerKinds : t <= Len(tasks) /\ TtsAnswers(t, ans)

SpecTaskLive ==
  InitTts /\ [][NextTask]_vars /\ \A t \in 1..MaxTaskCalls : WF_vars(TtsAttemptSettles(t))

\* ---------------------------------------------------------------- the two cache keys as functions
\* requests whose keys are computed: raw caller options, before any default
KeyTexts == {"om", "on"}
KeyVoiceTypes == {Undefined, N(1002)}
KeySpeeds == {Undefined, N(1), N(2), N(5)}
KeyVolumes == {Undefined, N(10), N(12)}
KeySampleRates == {Undefined, N(8000), N(16000)}
KeyLangs == {Undefined, S("zh"), S("en"), S("fr")}
KeyRequests ==
  [text : KeyTexts,
   opts : [voiceType : KeyVoiceTypes, speed : KeySpeeds, volume : KeyVolumes,
           sampleRate : KeySampleRates, lang : KeyLangs]]

KeyFields == {"text", "voiceType", "speed", "volume", "sampleRate", "lang"}
KeyValues(field) ==
  CASE field = "text" -> KeyTexts
    [] field = "voiceType" -> KeyVoiceTypes
    [] field = "speed" -> KeySpeeds
    [] field = "volume" -> KeyVolumes
    [] field = "sampleRate" -> KeySampleRates
    [] OTHER -> KeyLangs

\* request `a` with one field replaced
Varied(a, field, v) ==
  IF field = "text" THEN [a EXCEPT !.text = v] ELSE [a EXCEPT !.opts[field] = v]

\* the parameters _innerSynthesize hashes: fullOpts with the language code
StoreParams(opts, defaultLang) ==
  [voiceType |-> Or(ToNumber(opts.voiceType), N(DefaultVoiceType)),
   speed |-> clamp(Nullish(ToNumber(opts.speed), N(0)), SpeedMin, SpeedMax),
   volume |-> clamp(Nullish(ToNumber(opts.volume), N(5)), VolumeMin, VolumeMax),
   sampleRate |-> Or(ToNumber(opts.sampleRate), N(DefaultSampleRate)),
   primaryLanguage |-> PrimaryLanguage(opts, defaultLang)]

\* both keys of one request, computed as synthesizeSpeech and then
\* _innerSynthesize(text, fullOpts) compute them
KeysOf(r) ==
  [registry |-> RegistryKey(r.text, FullOpts(r.opts)),
   store |-> StoreKey(r.text, FullOpts(r.opts), config.defaultLang)]

\* the keys of a request and of the same request with one field changed
DeriveKeys(field, v) ==
  /\ fx.stage = "request"
  /\ v # (IF field = "text" THEN fx.a.text ELSE fx.a.opts[field])
  /\ LET b == Varied(fx.a, field, v)
     IN fx' = [stage |-> "keys", a |-> fx.a, b |-> b, field |-> field,
               keyA |-> KeysOf(fx.a), keyB |-> KeysOf(b)]
  /\ UNCHANGED <<caller, config, g, pending, tasks, calls>>

InitKey ==
  /\ config \in [strict : {FALSE}, analytics : {FALSE}, apiKey : {TRUE},
                 cos : {TRUE}, defaultLang : {"zh"}]
  /\ g = GIdle
  /\ pending = <<>>
  /\ tasks = <<>>
  /\ calls = <<>>
  /\ fx \in [stage : {"request"}, a : KeyRequests]
  /\ caller = NoCaller

NextKey == \E field \in KeyFields : \E v \in KeyValues(field) : DeriveKeys(field, v)

SpecKey == InitKey /\ [][NextKey]_vars

\* ---------------------------------------------------------------- handleMeditationPreview
\* `{ ...event, voice: false, options: { ...event.options, skipAudio: true } }`
PreviewEvent_KeepVoice(event) == [event EXCEPT !.skipAudio = TRUE]

PreviewEvent(event) == [event EXCEPT !.voice = FALSE, !.skipAudio = TRUE]

\* `if (result.success) result.data.metadata = { ...result.data.metadata, isPreview: true }`
PreviewResult(result) ==
  IF result.success
    THEN [result EXCEPT !.data =
            [f \in (DOMAIN result.data) \cup {"metadata"} |->
               IF f = "metadata"
                 THEN Spread(IF "metadata" \in DOMAIN result.data
                               THEN result.data.metadata ELSE EmptyObject,
                             [isPreview |-> TRUE])
                 ELSE result.data[f]]]
    ELSE result

\* handleMeditationPreview(event) up to its await; `event.options` of no event
\* throws, and nothing catches it
PreviewStarts(event) ==
  /\ caller = NoCaller /\ g.pc = "idle"
  /\ IF "t" \in DOMAIN event
       THEN /\ caller' = [kind |-> "preview", pc |-> "rejected", event |-> event,
                          response |-> Undefined]
            /\ g' = g
       ELSE /\ Enter(PreviewEvent(event))
            /\ caller' = [kind |-> "preview", pc |-> "guide", event |-> event,
                          response |-> Undefined]
  /\ UNCHANGED <<fx, config, pending, tasks, calls>>

\* the awaited orchestration returned
PreviewReturns ==
  /\ caller.kind = "preview" /\ caller.pc = "guide" /\ g.pc = "done"
  /\ caller' = [caller EXCEPT !.pc = "done", !.response = PreviewResult(g.result)]
  /\ UNCHANGED <<g, fx, config, pending, tasks, calls>>

\* the preview's promise has settled; the process takes the next request
PreviewEnds ==
  /\ caller.kind = "preview" /\ caller.pc \in {"done", "rejected"}
  /\ caller' = NoCaller
  /\ g' = GIdle
  /\ UNCHANGED <<fx, config, pending, tasks, calls>>

NextPreview ==
  \/ \E event \in Events \cup {Undefined, Null} : PreviewStarts(event)
  \/ \E resp \in LlmResponses : LlmSettles(resp)
  \/ PreviewReturns
  \/ PreviewEnds

SpecPreview == Init /\ [][NextPreview]_vars

\* ---------------------------------------------------------------- buildPrompt as a function
\* topics, styles and durations a caller can leave out or give
PromptTopics == {Undefined, S("sleep"), S("insomnia"), S("jichufangsong"), S("xyz")}
PromptStyles == {Undefined, Null, S(""), S("healing"), S("mindful")}
PromptDurations == {Undefined, Null, N(0), N(5), N(20)}
PromptParams == [topic : PromptTopics, style : PromptStyles, duration : PromptDurations]

\* promptBuilder.buildPrompt(params), called directly
BuildsPrompt ==
  /\ fx.stage = "params"
  /\ fx' = [stage |-> "prompt", via |-> "direct", params |-> fx.params,
            used |-> buildPrompt(fx.params)]
  /\ UNCHANGED <<caller, config, g, pending, tasks, calls>>

\* handleMeditationGuide(event) in standard mode, up to its buildPrompt call
GuideBuildsPrompt ==
  /\ fx.stage = "params"
  /\ fx' = [stage |-> "prompt", via |-> "guide", params |-> fx.params,
            used |-> buildPrompt(GuidePromptParams(fx.params))]
  /\ UNCHANGED <<caller, config, g, pending, tasks, calls>>

InitPrompt ==
  /\ config \in [strict : {FALSE}, analytics : {FALSE}, apiKey : {TRUE},
                 cos : {TRUE}, defaultLang : {"zh"}]
  /\ g = GIdle
  /\ pending = <<>>
  /\ tasks = <<>>
  /\ calls = <<>>
  /\ caller = NoCaller
  /\ fx \in [stage : {"params"}, params : PromptParams]

NextPrompt == BuildsPrompt \/ GuideBuildsPrompt

SpecPrompt == InitPrompt /\ [][NextPrompt]_vars

\* ---------------------------------------------------------------- generateMeditation.js
GenMinDuration == 3
GENERATION_ERROR == "GENERATION_ERROR"

\* validateParams, for the default topic and the default style
validateParams(duration, language) ==
  IF ~Truthy(duration) \/ duration.n < GenMinDuration \/ duration.n > MaxAccepted
    THEN Invalid("INVALID_DURATION")
  ELSE IF ~(language.t = "string" /\ language.s \in {"zh", "en"})
    THEN Invalid("INVALID_LANGUAGE")
  ELSE Valid

\* `const tts = require('../utils/tts')` binds the exports object
\* { synthesizeSpeech }; calling an object throws a TypeError
TtsIsCallable == FALSE
TtsNotCallableError == [message |-> S("tts is not a function")]

\* `if (language === 'zh' && !options.skipAudio)`
GenVoiceGate(language, skipAudio) == language = S("zh") /\ ~skipAudio

\* the catch of generateMeditation
GenCatch(error) ==
  [success |-> FALSE,
   error |-> [code |-> Or(Get(error, "code"), S(GENERATION_ERROR)),
              message |-> Or(Get(error, "message"), S("generation failed"))]]

\* generateMeditation(params), given what callLLM returned and how a
\* synthesis would end
generateMeditation(params, llmResponse, synthesis) ==
  LET duration == Default(params.duration, N(DefaultPromptDuration))
      language == Default(params.language, S("zh"))
      validation == validateParams(duration, language)
  IN IF ~validation.valid THEN [success |-> FALSE, error |-> validation.error]
     ELSE IF ~llmResponse.success
       THEN GenCatch([message |-> S("LLM call failed: [object Object]")])
     ELSE LET meditationText == llmResponse.data.content
          IN IF GenVoiceGate(language, params.skipAudio)
               THEN IF ~TtsIsCallable THEN GenCatch(TtsNotCallableError)
                    ELSE IF synthesis = "rejects" THEN GenCatch([message |-> S("tts")])
                    ELSE [success |-> TRUE,
                          data |-> [text |-> meditationText, audioUrl |-> S("url")]]
             ELSE [success |-> TRUE,
                   data |-> [text |-> meditationText, audioUrl |-> Null]]

GenParams ==
  [duration : {Undefined, N(2), N(10)}, language : {Undefined, S("zh"), S("en"), S("fr")},
   skipAudio : BOOLEAN]

Generates ==
  /\ fx.stage = "generate"
  /\ LET llmResponse == callLLM(config.apiKey, fx.resp)
     IN fx' = [fx EXCEPT !.stage = "generated", !.llmResponse = llmResponse,
                         !.result = generateMeditation(fx.params, llmResponse, fx.synthesis)]
  /\ UNCHANGED <<caller, config, g, pending, tasks, calls>>

InitGenerate ==
  /\ config \in [strict : {FALSE}, analytics : {FALSE}, apiKey : BOOLEAN,
                 cos : {TRUE}, defaultLang : {"zh"}]
  /\ g = GIdle
  /\ pending = <<>>
  /\ tasks = <<>>
  /\ calls = <<>>
  /\ caller = NoCaller
  /\ fx \in [stage : {"generate"}, params : GenParams, resp : LlmResponses,
             synthesis : {"resolves", "rejects"}, llmResponse : {Undefined},
             result : {Undefined}]

NextGenerate == Generates

SpecGenerate == InitGenerate /\ [][NextGenerate]_vars

\* ---------------------------------------------------------------- index.js main
\* the clock main reads: Date.now() and new Date().toISOString()
NowMs == "1700000000000"
NowIso == "2023-11-14T22:13:20.000Z"

\* errorResponse(code, message, metadata = {})
errorResponse(code, metadata) ==
  [success |-> FALSE, error |-> [code |-> code], metadata |-> metadata]

\* `context.requestId || \`req_${Date.now()}\``
RequestId(contextRequestId) == Or(contextRequestId, S("req_" \o NowMs))

\* { requestId, duration, timestamp }
ResponseMetadata(requestId) ==
  [requestId |-> requestId, duration |-> N(0), timestamp |-> S(NowIso)]

\* `result.metadata = { ...result.metadata, requestId, duration, timestamp }`
WithMetadata(result, requestId) ==
  [f \in (DOMAIN result) \cup {"metadata"} |->
     IF f = "metadata"
       THEN Spread(IF "metadata" \in DOMAIN result THEN result.metadata ELSE EmptyObject,
                   ResponseMetadata(requestId))
       ELSE result[f]]

\* the request types of the switch
HandlerTypes == {"generate", "preview", "batch", "recommend"}

\* main(event, context), given how the dispatched handler ends: it returns a
\* value or throws an error
main(eventType, contextRequestId, outcome) ==
  LET type == Default(eventType, S("ping"))
      requestId == RequestId(contextRequestId)
      caught(error) == errorResponse(Or(Get(error, "code"), S("INTERNAL_ERROR")),
                                     ResponseMetadata(requestId))
  IN IF type.s \in HandlerTypes
       THEN IF outcome.kind = "throw" THEN caught(outcome.error)
            ELSE IF "t" \in DOMAIN outcome.value
              THEN caught([message |-> S("Cannot read properties of undefined")])
            ELSE WithMetadata(outcome.value, requestId)
     ELSE IF type.s = "ping"
       THEN WithMetadata([success |-> TRUE, data |-> [pong |-> TRUE]], requestId)
     ELSE errorResponse(S("INVALID_TYPE"), EmptyObject)

\* requests and handler endings main is applied to
MainTypes == {Undefined, S("generate"), S("preview"), S("batch"), S("recommend"),
              S("ping"), S("delete")}
HandlerOutcomes ==
  { [kind |-> "return", value |-> [success |-> TRUE, data |-> [text |-> S("om")]]],
    [kind |-> "return", value |-> [success |-> FALSE, error |-> [code |-> S(EMPTY_CONTENT)]]],
    [kind |-> "return", value |-> [success |-> TRUE, data |-> [text |-> S("om")],
                                   metadata |-> [cached |-> TRUE]]],
    [kind |-> "return", value |-> Undefined],
    [kind |-> "throw", error |-> [message |-> S("boom")]],
    [kind |-> "throw", error |-> [message |-> S("boom"), code |-> S("E_HANDLER")]] }

Dispatch ==
  /\ fx.stage = "main"
  /\ fx' = [fx EXCEPT !.stage = "response",
                       !.response = main(fx.type, fx.requestId, fx.outcome)]
  /\ UNCHANGED <<caller, config, g, pending, tasks, calls>>

InitMain ==
  /\ config \in [strict : {FALSE}, analytics : {FALSE}, apiKey : {TRUE},
                 cos : {TRUE}, defaultLang : {"zh"}]
  /\ g = GIdle
  /\ pending = <<>>
  /\ tasks = <<>>
  /\ calls = <<>>
  /\ caller = NoCaller
  /\ fx \in [stage : {"main"}, type : MainTypes, requestId : {Undefined, S("r-1")},
             outcome : HandlerOutcomes, response : {Undefined}]

NextMain == Dispatch

SpecMain == InitMain /\ [][NextMain]_vars

\* ================================================================ properties
GDone == g.pc = "done"
GSuccess == GDone /\ g.result.success
VoiceFailed == g.synthCalls = 1 /\ HandleState(g.handle).state = "rejected"

\* C1: when text generation produced non-empty text and the voice phase ran,
\* a rejected synthesizeSpeech leaves a success:true result carrying the
\* generated text and a null audio; the voice phase never throws.
C1_SynthFailureIsTextOnlySuccess ==
  (GDone /\ VoiceFailed) =>
    /\ g.result.success
    /\ g.result.data.text = g.meditationText.s
    /\ g.result.data.audio = Null

C1_Witness == GDone /\ VoiceFailed /\ g.result.success /\ g.result.data.text = "om"

\* C2: a success:true result has non-empty text, and a non-null audio only
\* when voice was requested, the language is zh and the request's
\* synthesizeSpeech call fulfilled.
C2_SuccessHasTextAndGatedAudio ==
  GSuccess =>
    /\ g.result.data.text # ""
    /\ g.result.data.audio # Null =>
         /\ g.voice
         /\ g.language = S("zh")
         /\ g.synthCalls = 1
         /\ HandleState(g.handle).state = "fulfilled"

C2_Witness == GSuccess /\ g.voice /\ g.language = S("zh") /\ g.synthCalls = 1

\* C3 (as claimed): a voice request in zh whose text generation succeeded hands
\* synthesizeSpeech the text as a string and returns a non-null audio.
C3_Claimed_AudioPresent ==
  (GSuccess /\ g.voice /\ g.language = S("zh")) =>
    /\ g.synthArg.t = "string"
    /\ g.result.data.audio # Null

\* C4 (as claimed): synthesizeSpeech is called only for voice requests in zh
\* that did not set options.skipAudio.
C4_Claimed_SkipAudioHonoured ==
  g.synthCalls > 0 => (g.voice /\ g.language = S("zh") /\ ~g.skipAudio)

\* C5: a request validateInputs reports invalid returns success:false with the
\* validation error and calls neither callLLM, synthesizeSpeech nor recordUsage.
C5_InvalidShortCircuits ==
  (g.pc # "idle" /\ ~g.validation.valid) =>
    /\ GDone
    /\ g.result = [success |-> FALSE, error |-> g.validation.error]
    /\ g.llmCalls = 0 /\ g.llmRequests = 0
    /\ g.synthCalls = 0
    /\ g.usageCalls = 0

C5_Witness == GDone /\ ~g.validation.valid /\ g.result.error.code = S(INVALID_TOPIC)

\* C6: validateInputs answers valid:true whenever the duration is in 1..60, the
\* language is zh or en and the topic resolves in the catalog or strict topic
\* validation is off.
C6_ValidInputsAccepted ==
  ( /\ g.pc # "idle"
    /\ g.duration.n \in MinAccepted..MaxAccepted
    /\ g.language \in { S(l) : l \in SUPPORTED_LANGUAGES }
    /\ (TopicResolves(g.topic.s) \/ ~config.strict) )
  => g.validation.valid

C6_Witness ==
  /\ g.pc # "idle" /\ g.duration = N(1) /\ g.language = S("en")
  /\ config.strict /\ TopicResolves(g.topic.s) /\ g.validation.valid

Supplied(v) == v.t # "undefined"

\* C7 (as claimed): only requests whose supplied duration is in 1..60 and whose
\* supplied language is zh or en reach text generation; a supplied duration
\* outside the range is answered INVALID_DURATION, a supplied language outside
\* the set INVALID_LANGUAGE.
C7_Claimed_OutOfRangeRejected ==
  /\ g.llmCalls > 0 =>
       /\ Supplied(g.event.duration) => g.event.duration.n \in MinAccepted..MaxAccepted
       /\ Supplied(g.event.language) =>
            g.event.language \in { S(l) : l \in SUPPORTED_LANGUAGES }
  /\ ( /\ GDone /\ Supplied(g.event.duration)
       /\ g.event.duration.n \notin MinAccepted..MaxAccepted
       /\ ~(Supplied(g.event.language)
            /\ g.event.language \notin { S(l) : l \in SUPPORTED_LANGUAGES }) )
     => (~g.result.success /\ g.result.error.code = S(INVALID_DURATION))
  /\ ( /\ GDone /\ Supplied(g.event.language)
       /\ g.event.language \notin { S(l) : l \in SUPPORTED_LANGUAGES } )
     => (~g.result.success /\ g.result.error.code = S(INVALID_LANGUAGE))

\* ---------------------------------------------------------------- synthesis registry
TaskIds == 1..Len(tasks)
UnsettledTask(t) == tasks[t].promise = Unsettled
SameRequest(a, b) == a.text = b.text /\ a.opts = b.opts
Joined(i, j) ==
  /\ i < j /\ SameRequest(calls[i], calls[j])
  /\ calls[i].handle.kind = "task" /\ calls[j].kind = "reuse"
  /\ calls[j].handle = calls[i].handle

\* C8 (as claimed): two identical calls, the second issued while the first is
\* unsettled, together cause exactly one outbound TTS provider call.
C8_Claimed_ExactlyOneProviderCall ==
  \A i, j \in 1..Len(calls) :
    (Joined(i, j) /\ ~UnsettledTask(calls[i].handle.id)) =>
       tasks[calls[i].handle.id].ttsCalls = 1

\* C8 (amended): a call identical to an earlier call whose task is unsettled
\* starts no task (hence no store probe and no provider call of its own) and
\* gets the earlier call's promise; the provider attempts caused by the two
\* calls are those of the one task, at most two.
C8_SecondCallJoinsTask ==
  /\ [][ Len(calls') = Len(calls) + 1 =>
           \A i \in 1..Len(calls) :
             ( /\ SameRequest(calls[i], calls'[Len(calls')])
               /\ calls[i].handle.kind = "task"
               /\ UnsettledTask(calls[i].handle.id) )
             => /\ calls'[Len(calls')].handle = calls[i].handle
                /\ tasks' = tasks ]_vars
  /\ [](\A i, j \in 1..Len(calls) :
          Joined(i, j) =>
            /\ HandleState(calls[i].handle) = HandleState(calls[j].handle)
            /\ tasks[calls[i].handle.id].ttsCalls <= 2)

C8_Witness ==
  \E i, j \in 1..Len(calls) :
    /\ Joined(i, j)
    /\ HandleState(calls[j].handle).state = "rejected"
    /\ tasks[calls[i].handle.id].ttsCalls = 2

\* C9: at most one unsettled task per registry key, and the registry holds a
\* key exactly while a task for that key is unsettled.
C9_OneTaskPerKey ==
  /\ \A t1, t2 \in TaskIds :
       (UnsettledTask(t1) /\ UnsettledTask(t2) /\ tasks[t1].key = tasks[t2].key) => t1 = t2
  /\ \A k \in DOMAIN pending :
       pending[k] \in TaskIds /\ UnsettledTask(pending[k]) /\ tasks[pending[k]].key = k
  /\ \A t \in TaskIds :
       UnsettledTask(t) => (tasks[t].key \in DOMAIN pending /\ pending[tasks[t].key] = t)

C9_Witness ==
  /\ Cardinality(DOMAIN pending) = 2
  /\ \E t1, t2 \in TaskIds :
       ~UnsettledTask(t1) /\ UnsettledTask(t2) /\ tasks[t1].key = tasks[t2].key

\* C10 (as claimed): two requests get the same registry key exactly when they
\* map to the same store object key, so no two unsettled tasks share a store
\* object.
C10_Claimed_KeysAgree ==
  \A t1, t2 \in TaskIds :
    /\ (tasks[t1].key = tasks[t2].key) <=> (tasks[t1].storeKey = tasks[t2].storeKey)
    /\ (UnsettledTask(t1) /\ UnsettledTask(t2) /\ tasks[t1].storeKey = tasks[t2].storeKey)
         => t1 = t2

\* ---------------------------------------------------------------- C11
KeysDerived == fx.stage = "keys"

C12_SettleRemovesOwnEntryOnly ==
  /\ [][ \A t \in TaskIds :
           (UnsettledTask(t) /\ tasks'[t].promise # Unsettled) =>
              /\ tasks[t].key \in DOMAIN pending
              /\ DOMAIN pending' = (DOMAIN pending) \ {tasks[t].key}
              /\ \A k \in DOMAIN pending' : pending'[k] = pending[k] ]_vars
  /\ [][ Len(calls') = Len(calls) + 1 =>
           \A i \in 1..Len(calls) :
             ( /\ SameRequest(calls[i], calls'[Len(calls')])
               /\ calls[i].handle.kind = "task"
               /\ tasks[calls[i].handle.id].key \notin DOMAIN pending )
             => /\ calls'[Len(calls')].kind = "start"
                /\ calls'[Len(calls')].handle = [kind |-> "task", id |-> Len(tasks) + 1]
                /\ Len(tasks') = Len(tasks) + 1
                /\ tasks'[Len(tasks')].promise = Unsettled
                /\ tasks'[Len(tasks')].headCalls + tasks'[Len(tasks')].ttsCalls = 1
                /\ pending'[tasks[calls[i].handle.id].key] = Len(tasks) + 1 ]_vars

\* a call repeated after its task was rejected got a task of its own, which
\* was fulfilled, while another key stayed registered throughout
C12_Witness ==
  \E i, j \in 1..Len(calls) :
    /\ i < j /\ SameRequest(calls[i], calls[j])
    /\ calls[i].handle.kind = "task" /\ calls[j].kind = "start"
    /\ calls[j].handle.id # calls[i].handle.id
    /\ HandleState(calls[i].handle).state = "rejected"
    /\ HandleState(calls[j].handle).state = "fulfilled"
    /\ \E t \in TaskIds : UnsettledTask(t) /\ t < calls[j].handle.id

\* ---------------------------------------------------------------- C13
\* C13: a task has called the TTS provider exactly when its store probe did
\* not answer "found": a found probe fulfils the task with the public URL
\* alone and the task makes no provider call and no upload; a not-found
\* probe, any other probe error and an unconfigured store all lead to a
\* provider call; while the probe is outstanding nothing else has been called.
C13_ProviderCalledIffProbeMissed ==
  \A t \in TaskIds :
    /\ (tasks[t].probe = "none") <=> ~config.cos
    /\ tasks[t].probe = "wait" =>
         (UnsettledTask(t) /\ tasks[t].ttsCalls = 0 /\ tasks[t].putCalls = 0)
    /\ tasks[t].probe = "found" =>
         /\ tasks[t].promise = Fulfilled([url |-> S(buildUrl(tasks[t].storeKey))])
         /\ tasks[t].ttsCalls = 0 /\ tasks[t].putCalls = 0
    /\ tasks[t].probe \in {"none", "notfound", "error"} => tasks[t].ttsCalls >= 1
    /\ tasks[t].headCalls = (IF config.cos THEN 1 ELSE 0)

\* the probe failed with an error other than not-found and the task went on
\* to synthesize and resolve
C13_Witness ==
  \E t \in TaskIds :
    /\ tasks[t].probe = "error"
    /\ tasks[t].ttsCalls = 1
    /\ tasks[t].promise.state = "fulfilled"

\* ---------------------------------------------------------------- C14
\* the errors an attempt can leave in lastError
FirstAttemptErrors == {TimeoutError, DecodeError, ProviderError(1)}
SecondAttemptErrors == {TimeoutError, DecodeError, ProviderError(2)}

\* C14: a task calls the TTS provider at most twice; the second call is made
\* only by the step in which the first attempt failed (provider error,
\* timeout or unusable payload) and never once an attempt has succeeded; a
\* task is rejected only after two failed attempts, and then with the error of
\* the second attempt wrapped in the synthesis error.
C14_RetryOnceThenLastError ==
  /\ [](\A t \in TaskIds :
          /\ tasks[t].ttsCalls <= 2
          /\ (tasks[t].pc = "tts" /\ tasks[t].ttsCalls = 2)
               => (tasks[t].attempt = 1 /\ tasks[t].lastError \in FirstAttemptErrors)
          /\ tasks[t].promise.state = "rejected"
               => /\ tasks[t].ttsCalls = 2
                  /\ \E e \in SecondAttemptErrors :
                       tasks[t].promise.error = SynthesisError(e))
  /\ [][ \A t \in TaskIds :
           /\ tasks'[t].ttsCalls = 2 /\ tasks[t].ttsCalls # 2
                => /\ tasks[t].pc = "tts" /\ tasks[t].ttsCalls = 1 /\ tasks[t].attempt = 0
                   /\ UnsettledTask(t) /\ tasks'[t].promise = Unsettled
                   /\ tasks'[t].lastError \in FirstAttemptErrors
           /\ (tasks[t].pc \in {"put", "settled"})
                => tasks'[t].ttsCalls = tasks[t].ttsCalls ]_vars

\* both attempts failed and the task was rejected with the second provider
\* error
C14_Witness ==
  \E t \in TaskIds :
    /\ tasks[t].ttsCalls = 2
    /\ tasks[t].promise = Rejected(SynthesisError(ProviderError(2)))

\* ---------------------------------------------------------------- C15
HasField(v, f) == f \in DOMAIN v /\ Truthy(v[f])

\* C15: uploads start only after a successful TTS attempt and only with a
\* configured store, there are at most two of them and no provider call
\* follows; a task that uploaded always resolves - with the object's URL (and
\* the payload) when an upload succeeded, with the inline base64 payload and
\* no URL when both failed - and without a store it resolves with the payload
\* alone. Every resolved result carries a url or a base64 payload.
C15_UploadFailureIsNotFatal ==
  /\ [](\A t \in TaskIds :
          /\ tasks[t].putCalls <= 2
          /\ tasks[t].putCalls >= 1 => (config.cos /\ tasks[t].ttsCalls >= 1)
          /\ (tasks[t].putCalls >= 1 /\ ~UnsettledTask(t)) =>
               \/ tasks[t].promise = Fulfilled([url |-> S(buildUrl(tasks[t].storeKey)),
                                                base64 |-> S("audio")])
               \/ tasks[t].putCalls = 2 /\ tasks[t].promise = Fulfilled([base64 |-> S("audio")])
          /\ (~config.cos /\ tasks[t].promise.state = "fulfilled") =>
               (tasks[t].putCalls = 0 /\ tasks[t].promise = Fulfilled([base64 |-> S("audio")]))
          /\ tasks[t].promise.state = "fulfilled" =>
               (HasField(tasks[t].promise.value, "url")
                  \/ HasField(tasks[t].promise.value, "base64")))
  /\ [][ \A t \in TaskIds :
           /\ tasks'[t].putCalls # tasks[t].putCalls =>
                /\ tasks'[t].putCalls = tasks[t].putCalls + 1
                /\ tasks[t].pc \in {"tts", "put"} /\ tasks'[t].pc = "put"
                /\ tasks'[t].ttsCalls = tasks[t].ttsCalls
           /\ tasks[t].putCalls >= 1 => tasks'[t].ttsCalls = tasks[t].ttsCalls ]_vars

\* the second provider attempt succeeded, both uploads failed and the task
\* resolved with the payload alone
C15_Witness ==
  \E t \in TaskIds :
    /\ config.cos
    /\ tasks[t].ttsCalls = 2
    /\ tasks[t].putCalls = 2
    /\ tasks[t].promise = Fulfilled([base64 |-> S("audio")])

LlmReturned == g.llmResp # Undefined

\* C17: callLLM sends no request without an API key and then returns
\* success:false with code NO_API_KEY; with a key it sends exactly one
\* request per invocation; it always returns a result object, a failed
\* request giving success:false with the HTTP status as code when the error
\* carries one and HTTP_ERROR otherwise.
C17_OneRequestNoThrow ==
  /\ g.llmCalls <= 1
  /\ g.llmRequests = (IF g.llmCalls = 1 /\ config.apiKey THEN 1 ELSE 0)
  /\ LlmReturned =>
       /\ g.llmCalls = 1
       /\ "success" \in DOMAIN g.llmResp /\ g.llmResp.success \in BOOLEAN
       /\ ~config.apiKey =>
            /\ g.llmRaw = Undefined
            /\ g.llmResp = [success |-> FALSE, error |-> [code |-> S("NO_API_KEY")]]
       /\ config.apiKey =>
            /\ g.llmRaw \in LlmResponses
            /\ g.llmRaw.transport = "error" =>
                 /\ ~g.llmResp.success
                 /\ g.llmResp.error.code =
                      (IF g.llmRaw.status = Undefined THEN S("HTTP_ERROR") ELSE g.llmRaw.status)

\* the one request failed with HTTP status 500 and callLLM reported 500
C17_Witness ==
  /\ LlmReturned
  /\ g.llmRequests = 1
  /\ g.llmRaw = [transport |-> "error", status |-> N(500)]
  /\ g.llmResp = [success |-> FALSE, error |-> [code |-> N(500)]]

\* ---------------------------------------------------------------- C18
\* C18: from an answered request callLLM takes the text from the first
\* non-empty of choices[0].message.content, result.content and content, in
\* that order, and returns success:true with it as data.text and
\* data.content; when all three are missing or empty it returns success:false
\* with code EMPTY_RESPONSE.
C18_ContentPriority ==
  (LlmReturned /\ config.apiKey /\ g.llmRaw.transport = "ok") =>
    LET r == g.llmRaw
        first == IF Truthy(r.choices) THEN r.choices
                 ELSE IF Truthy(r.result) THEN r.result
                 ELSE r.content
    IN IF Truthy(first)
         THEN g.llmResp = [success |-> TRUE, data |-> [text |-> first, content |-> first]]
         ELSE g.llmResp = [success |-> FALSE, error |-> [code |-> S("EMPTY_RESPONSE")]]

\* an empty choices entry is skipped and result.content wins over content
C18_Witness ==
  /\ LlmReturned
  /\ g.llmRaw = [transport |-> "ok", choices |-> S(""), result |-> S("om"),
                 content |-> S("breathe")]
  /\ g.llmResp.success
  /\ g.llmResp.data.text = S("om")

\* ---------------------------------------------------------------- C19
\* the handler has taken the client's result
PastLlm == g.llmCalls = 1 /\ g.pc \in {"tts", "done"}
ClientSucceeded == "success" \in DOMAIN g.llmResp /\ g.llmResp.success
ClientText(f) ==
  /\ "data" \in DOMAIN g.llmResp
  /\ f \in DOMAIN g.llmResp.data
  /\ Truthy(g.llmResp.data[f])

\* C19: when the client's result is not a success the handler returns
\* success:false with the client's error object as the top-level error and
\* does not call synthesizeSpeech; when the result is a success from which no
\* non-empty text can be taken, it returns success:false with the
\* EMPTY_CONTENT code, again without calling synthesizeSpeech.
C19_ClientFailureIsTerminal ==
  PastLlm =>
    /\ ~ClientSucceeded =>
         /\ GDone /\ ~g.result.success /\ g.synthCalls = 0
         /\ "error" \in DOMAIN g.llmResp => g.result.error = g.llmResp.error
    /\ (ClientSucceeded /\ ~ClientText("text") /\ ~ClientText("choices")
           /\ ~ClientText("content")) =>
         /\ GDone /\ g.synthCalls = 0
         /\ g.result = [success |-> FALSE, error |-> [code |-> S(EMPTY_CONTENT)]]

\* a voice request whose client reported success with empty text
C19_Witness ==
  /\ PastLlm /\ GDone
  /\ g.voice /\ g.language = S("zh")
  /\ g.llmResp = [success |-> TRUE,
                  data |-> [text |-> S(""), choices |-> Undefined, content |-> S("")]]
  /\ g.result.error.code = S(EMPTY_CONTENT)

\* ---------------------------------------------------------------- C20
\* C20: for every request that reaches the text-generation call the duration
\* is an integer from 1 to 60, quick mode is on exactly when it is below 3,
\* and the maxTokens passed is floor(duration x 175 x 1.5 x 1.2) in standard
\* mode and the floor of 0.8 times that value in quick mode - 504 for
\* duration 2, whose standard value is 630.
C20_QuickModeAndTokenBudget ==
  g.llmCalls = 1 =>
    LET d == g.duration.n
        standard == (d * 175 * 15 * 12) \div 100
    IN /\ d \in MinAccepted..MaxAccepted
       /\ g.isQuickMode <=> d < 3
       /\ g.maxTokens = N(IF g.isQuickMode THEN (standard * 8) \div 10 ELSE standard)
       /\ d = 2 => (standard = 630 /\ g.maxTokens = N(504))
       /\ d = 3 => g.maxTokens = N(945)

\* a two-minute request reached the text-generation call in quick mode with
\* a budget of 504 tokens
C20_Witness ==
  /\ g.llmCalls = 1
  /\ g.event.duration = N(2)
  /\ g.isQuickMode
  /\ g.maxTokens = N(504)

\* ---------------------------------------------------------------- C21
\* C21 (as claimed): a request with duration below 3 is sent with a system
\* prompt and a temperature that both differ from what standard mode would
\* send for the same options, and its temperature is the lower of the two.
C21_Claimed_QuickModeLowersTemperature ==
  (g.llmCalls = 1 /\ g.duration.n < 3) =>
    /\ g.systemPrompt # S(systemPrompt(FALSE))
    /\ g.temperature # temperature(FALSE, Get(g.event, "temperature"))
    /\ g.temperature.n < temperature(FALSE, Get(g.event, "temperature")).n

\* ---------------------------------------------------------------- C22
BatchDone == caller.kind = "batch" /\ caller.pc = "done" /\ Len(caller.topics) > 0

\* C22: while a batch over a non-empty list runs, the orchestration has been
\* invoked once per element reached so far, in list order; the batch ends only
\* at the end of the list, whatever the items returned, and then returns
\* success:true with total = the list length, one result per element in list
\* order, successful = the number of orchestrations that returned
\* success:true and successful + failed = total.
C22_BatchRunsEveryItem ==
  (caller.kind = "batch" /\ Len(caller.topics) > 0) =>
    /\ Len(caller.invoked) <= Len(caller.topics)
    /\ Len(caller.results) = Len(caller.returned)
    /\ Len(caller.invoked) = Len(caller.results) + (IF caller.pc = "item" THEN 1 ELSE 0)
    /\ \A i \in 1..Len(caller.invoked) :
         caller.invoked[i] = BatchOptions(caller.topics[i], caller.baseOptions)
    /\ \A i \in 1..Len(caller.results) :
         /\ caller.results[i].success = caller.returned[i].success
         /\ caller.results[i].topic = Get(caller.invoked[i], "topic")
    /\ caller.pc = "done" =>
         LET d == caller.response.data
         IN /\ caller.response.success
            /\ Len(caller.invoked) = Len(caller.topics)
            /\ d.total = Len(caller.topics)
            /\ Len(d.results) = d.total
            /\ d.results = caller.results
            /\ d.successful =
                 Cardinality({i \in 1..Len(caller.returned) : caller.returned[i].success})
            /\ d.successful + d.failed = d.total

\* a batch of two whose first item failed and whose second succeeded
C22_Witness ==
  /\ BatchDone
  /\ Len(caller.topics) = 2
  /\ ~caller.returned[1].success
  /\ caller.returned[2].success
  /\ caller.response.data.successful = 1
  /\ caller.response.data.failed = 1

\* ---------------------------------------------------------------- C23
PhaseRank(p) ==
  CASE p = "validate" -> 1 [] p = "prompt" -> 2 [] p = "text" -> 3
    [] p = "voice" -> 4 [] OTHER -> 5
Entered(p) == \E i \in 1..Len(g.phases) : g.phases[i] = p

\* C23: the phases a request has entered are in the order validate, prompt,
\* text generation, voice, assemble, each at most once; callLLM is invoked
\* only after validation passed and the prompt was built; synthesizeSpeech is
\* called only after text generation returned non-empty text, with an
\* argument carrying exactly that text; the result is assembled only when the
\* voice phase has ended or was not entered.
C23_PhasesInOrder ==
  /\ \A i, j \in 1..Len(g.phases) : i < j => PhaseRank(g.phases[i]) < PhaseRank(g.phases[j])
  /\ g.pc # "idle" => g.phases[1] = "validate"
  /\ g.llmCalls = (IF Entered("text") THEN 1 ELSE 0)
  /\ g.synthCalls = (IF Entered("voice") THEN 1 ELSE 0)
  /\ Entered("text") => (g.validation.valid /\ Entered("prompt"))
  /\ Entered("voice") =>
       /\ Entered("text") /\ g.llmResp.success
       /\ g.meditationText = g.llmResp.data.text /\ Truthy(g.meditationText)
       /\ g.synthArg = Obj([text |-> g.meditationText])
  /\ Entered("assemble") =>
       /\ GDone /\ Entered("text") /\ Truthy(g.meditationText)
       /\ Entered("voice") => HandleState(g.handle).state # "pending"
  /\ g.pc = "tts" => (Entered("voice") /\ ~Entered("assemble"))

\* a request that went through all five phases
C23_Witness ==
  /\ GDone
  /\ g.phases = <<"validate", "prompt", "text", "voice", "assemble">>
  /\ g.synthArg = Obj([text |-> S("breathe")])

\* ---------------------------------------------------------------- C24
\* C24 (as claimed): every response of main - for generate, preview, batch,
\* recommend, ping and an unsupported type, whether the handler returned a
\* success, returned a failure or threw - has a metadata object with
\* requestId, duration and timestamp.
C24_Claimed_MetadataOnEveryResponse ==
  fx.stage = "response" =>
    /\ "metadata" \in DOMAIN fx.response
    /\ {"requestId", "duration", "timestamp"} \subseteq DOMAIN fx.response.metadata

\* ---------------------------------------------------------------- C25
\* C25 (as claimed): the error code of every success:false result of
\* handleMeditationGuide - from validation, from the text-generation client,
\* from empty content or from the outermost catch - is one of the values of
\* config.ERROR_CODES.
C25_Claimed_CodesFromTheEnumeration ==
  (GDone /\ ~g.result.success) =>
    \E c \in ErrorCodeValues : g.result.error.code = S(c)

\* ---------------------------------------------------------------- C26
\* the catalog entry a prompt request's topic resolves to
PromptTopicConfig == FindTopicConfig(Default(fx.params.topic, S(DefaultTopic)).s)

\* C26 (as claimed): when the topic resolves in the catalog, a style the
\* caller left out becomes the topic's first recommended style and a duration
\* the caller left out becomes the topic's default duration, while a style or
\* duration the caller gave is used unchanged.
C26_Claimed_TopicFillsStyleAndDuration ==
  (fx.stage = "prompt" /\ PromptTopicConfig # {}) =>
    \A c \in PromptTopicConfig :
      /\ fx.used.style = IF Truthy(fx.params.style) THEN fx.params.style
                         ELSE S(c.recommendedStyles[1])
      /\ fx.used.duration = IF Truthy(fx.params.duration) THEN fx.params.duration
                            ELSE N(c.defaultDuration)

C28_PreviewNeverSynthesizes ==
  caller.kind = "preview" =>
    /\ g.synthCalls = 0
    /\ tasks = <<>>
    /\ caller.pc = "done" =>
         IF g.result.success
           THEN /\ caller.response.success
                /\ caller.response.data.audio = Null
                /\ caller.response.data.metadata.isPreview
                /\ caller.response.data.text = g.result.data.text
           ELSE caller.response = g.result

C28_Witness ==
  /\ caller.kind = "preview" /\ caller.pc = "done"
  /\ caller.event.voice /\ ~caller.event.skipAudio /\ g.language = S("zh")
  /\ caller.response.success
  /\ caller.response.data.metadata.isPreview

C28_WitnessFailure ==
  /\ caller.kind = "preview" /\ caller.pc = "done"
  /\ caller.event.voice
  /\ ~caller.response.success

\* ---------------------------------------------------------------- C29
\* task t has settled and the registry no longer points at it
TaskSettled(t) ==
  /\ Len(tasks) >= t
  /\ tasks[t].promise # Unsettled
  /\ \A k \in DOMAIN pending : pending[k] # t

\* C29 (as claimed): every started synthesis task eventually settles and
\* frees its registry entry, given only that every provider attempt answers
\* or times out - whatever the object store does, never answering included.
C29_Claimed_EveryTaskSettles ==
  \A t \in 1..MaxTaskCalls : [](Len(tasks) >= t => <>TaskSettled(t))

\* ---------------------------------------------------------------- C30
\* C30 (as claimed): at any time at most one provider call of a synthesis
\* task is outstanding; the second attempt is issued only once the call of
\* the first attempt is no longer in flight.
C30_Claimed_OneProviderCallAtATime ==
  \A t \in 1..Len(tasks) : tasks[t].inflight <= 1

\* ---------------------------------------------------------------- C31
\* validation passed and the text-generation call succeeded
GenTextReady ==
  /\ fx.stage = "generated"
  /\ validateParams(Default(fx.params.duration, N(DefaultPromptDuration)),
                    Default(fx.params.language, S("zh"))).valid
  /\ fx.llmResponse.success

\* C31 (as claimed): in generateMeditation a failure of the speech-synthesis
\* step never changes the outcome: whenever validation passed and the LLM call
\* succeeded the result is success:true with data.text the generated text, and
\* audioUrl is null when synthesis failed.
C31_Claimed_SynthesisNeverFailsRequest ==
  GenTextReady =>
    /\ fx.result.success
    /\ fx.result.data.text = fx.llmResponse.data.content
    /\ fx.synthesis = "rejects" => fx.result.data.audioUrl = Null

\* ---------------------------------------------------------------- C32
\* the topic an element of the topics list names: the string itself, or the
\* topic field of an object
NamedTopic(topicConfig) ==
  IF topicConfig.t = "string" THEN topicConfig ELSE Get(topicConfig.o, "topic")

\* C32 (as claimed): for every element of the topics list that names a topic,
\* the orchestration is run for that topic and the i-th result's topic field
\* is that topic, for bare strings and for objects, whatever baseOptions holds.
C32_Claimed_ItemsKeepTheirTopic ==
  caller.kind = "batch" =>
    /\ \A i \in 1..Len(caller.invoked) :
         NamedTopic(caller.topics[i]) # Undefined =>
           Get(caller.invoked[i], "topic") = NamedTopic(caller.topics[i])
    /\ \A i \in 1..Len(caller.results) :
         NamedTopic(caller.topics[i]) # Undefined =>
           caller.results[i].topic = NamedTopic(caller.topics[i])

\* ---------------------------------------------------------------- C33
\* C33 (as claimed): in every successful standard-mode result the style in
\* data.metadata.style is the style buildPrompt used for the prompt sent to
\* the text-generation call, also when the caller gave no style.
C33_Claimed_ReportedStyleIsPromptStyle ==
  (GSuccess /\ ~g.isQuickMode) => g.result.data.metadata.style = g.promptStyle

====
